---- MODULE Spec2Model ----
(***************************************************************************)
(* A model of tetrust (src/src/main.rs): the Board, Piece, PieceBag and    *)
(* Game types and the play loop that merges the events of three producer   *)
(* threads into one consumer.                                              *)
(*                                                                         *)
(* Matrices keep the source's 0-based indices: a shape is a function       *)
(* 0..N-1 -> (0..N-1 -> {0,1}), the board's cells a function               *)
(* 0..BOARD_HEIGHT-1 -> (0..BOARD_WIDTH-1 -> Cell).                        *)
(* A panic of the main thread (an index out of range, an unsigned          *)
(* subtraction below zero) ends the process: operations report it in a     *)
(* field "panic" and the play loop moves to session = "panicked".          *)
(* The render pass at the top of the main loop (modules display, terminal) *)
(* changes no field of Game and is left out.                               *)
(***************************************************************************)
EXTENDS Integers, Sequences, FiniteSets, TLC

(***************************************************************************)
(* Bounds of the model.  The playfield is scaled down from the source's    *)
(* 10 x 20 (main.rs:14-15) so that locks, line clears and a blocked spawn   *)
(* happen within a few events; 4 columns is the least width that holds the *)
(* I piece.                                                                *)
(***************************************************************************)
BOARD_WIDTH == 4
BOARD_HEIGHT == 5

\* during play one fill_bag draws the same value of rng.gen::<usize>() seven
\* times, a value in 0..RngMax
RngMax == 0
\* events the producers emit in one bounded session
MaxEvents == 4
\* events waiting in the channel at one time
MaxQueue == 2
\* readings of the difficulty signal: 0..MaxPrice
MaxPrice == 2
\* play stops being explored once the score / the level reaches these
MaxScore == 11
MaxLevel == 3
\* origins tried by the Board harness lie within this margin around the grid
Margin == 2
\* the PieceBag harness draws every value of rng.gen::<usize>() from 0..BagRngMax
BagRngMax == 1
\* pops made by the PieceBag harness
MaxPops == 8
\* rotations in one direction made in a row by the Piece harness
MaxTurns == 4
\* pieces locked by the Game harness
MaxLocks == 3

(***************************************************************************)
(* Program constants                                                       *)
(***************************************************************************)
\* main.rs:484  let mut duration = 200;
InitialDuration == 200
\* main.rs:550-554  the step of the difficulty feed
DurationStep == 500
\* main.rs:448  self.score % 10 == 0
LevelEvery == 10

None == "None"
Colors == {"Cyan", "Orange", "Blue", "Purple", "Green", "Red"}
Cell == Colors \cup {None}

Left == "Left"
Right == "Right"

----------------------------------------------------------------------------
(* Piece *)

\* a Vec<Vec<u8>> literal, re-indexed from 0
Mat(rows) ==
    [r \in 0..(Len(rows) - 1) |->
        [c \in 0..(Len(rows[r + 1]) - 1) |-> rows[r + 1][c + 1]]]

new_o == [color |-> "Cyan",   shape |-> Mat(<< <<1, 1>>, <<1, 1>> >>)]
new_l == [color |-> "Orange", shape |-> Mat(<< <<0, 0, 1>>, <<1, 1, 1>>, <<0, 0, 0>> >>)]
new_j == [color |-> "Blue",   shape |-> Mat(<< <<1, 0, 0>>, <<1, 1, 1>>, <<0, 0, 0>> >>)]
new_t == [color |-> "Purple", shape |-> Mat(<< <<0, 1, 0>>, <<1, 1, 1>>, <<0, 0, 0>> >>)]
new_s == [color |-> "Green",  shape |-> Mat(<< <<0, 1, 1>>, <<1, 1, 0>>, <<0, 0, 0>> >>)]
new_z == [color |-> "Red",    shape |-> Mat(<< <<1, 1, 0>>, <<0, 1, 1>>, <<0, 0, 0>> >>)]
new_i == [color |-> "Cyan",
          shape |-> Mat(<< <<0, 0, 0, 0>>, <<1, 1, 1, 1>>, <<0, 0, 0, 0>>, <<0, 0, 0, 0>> >>)]

\* self.shape.len()
ShapeLen(shape) == Cardinality(DOMAIN shape)

\* shape[r][c] = v
SetAt(shape, r, c, v) == [shape EXCEPT ![r] = [@ EXCEPT ![c] = v]]

\* an inner loop that leaves out the last assignment of the four-way swap
RotateSwapThreeWay(shape, size, row, col, direction) ==
    IF direction = Left
    THEN LET s1 == SetAt(shape, row, col, shape[col][size - row - 1])
             s2 == SetAt(s1, col, size - row - 1, s1[size - row - 1][size - col - 1])
         IN  SetAt(s2, size - row - 1, size - col - 1, s2[size - col - 1][row])
    ELSE LET s1 == SetAt(shape, row, col, shape[size - col - 1][row])
             s2 == SetAt(s1, size - col - 1, row, s1[size - row - 1][size - col - 1])
         IN  SetAt(s2, size - row - 1, size - col - 1, s2[col][size - row - 1])

\* the body of rotate's inner loop: one four-way swap, assignment by assignment
RotateSwap(shape, size, row, col, direction) ==
    LET t == shape[row][col] IN
    IF direction = Left
    THEN LET s1 == SetAt(shape, row, col, shape[col][size - row - 1])
             s2 == SetAt(s1, col, size - row - 1, s1[size - row - 1][size - col - 1])
             s3 == SetAt(s2, size - row - 1, size - col - 1, s2[size - col - 1][row])
         IN  SetAt(s3, size - col - 1, row, t)
    ELSE LET s1 == SetAt(shape, row, col, shape[size - col - 1][row])
             s2 == SetAt(s1, size - col - 1, row, s1[size - row - 1][size - col - 1])
             s3 == SetAt(s2, size - row - 1, size - col - 1, s2[col][size - row - 1])
         IN  SetAt(s3, col, size - row - 1, t)

\* loops that turn the outermost ring only
RECURSIVE RotateOuterRing(_, _, _, _, _)
RotateOuterRing(shape, size, row, col, direction) ==
    IF row >= 1 THEN shape
    ELSE IF col >= size - row - 1
         THEN RotateOuterRing(shape, size, row + 1, row + 1, direction)
         ELSE RotateOuterRing(RotateSwap(shape, size, row, col, direction),
                              size, row, col + 1, direction)

\* for row in 0..size / 2 { for col in row..(size - row - 1) { ... } }
RECURSIVE RotateFrom(_, _, _, _, _)
RotateFrom(shape, size, row, col, direction) ==
    IF row >= size \div 2 THEN shape
    ELSE IF col >= size - row - 1
         THEN RotateFrom(shape, size, row + 1, row + 1, direction)
         ELSE RotateFrom(RotateSwap(shape, size, row, col, direction),
                         size, row, col + 1, direction)

\* Piece::rotate
rotate(p, direction) ==
    [p EXCEPT !.shape = RotateFrom(p.shape, ShapeLen(p.shape), 0, 0, direction)]

\* Piece::each_point: the (row, col) of the filled cells, in the order of the calls
RECURSIVE EachPointFrom(_, _, _)
EachPointFrom(p, row, col) ==
    LET piece_width == ShapeLen(p.shape) IN
    IF row >= piece_width THEN << >>
    ELSE IF col >= piece_width THEN EachPointFrom(p, row + 1, 0)
         ELSE (IF p.shape[row][col] # 0 THEN << <<row, col>> >> ELSE << >>)
              \o EachPointFrom(p, row, col + 1)

each_point(p) == EachPointFrom(p, 0, 0)

----------------------------------------------------------------------------
(* Board *)

EmptyRow == [c \in 0..(BOARD_WIDTH - 1) |-> None]
\* [[None; BOARD_WIDTH]; BOARD_HEIGHT]
EmptyCells == [r \in 0..(BOARD_HEIGHT - 1) |-> EmptyRow]

\* cells[y as usize][x as usize] is in range (a negative i32 casts to a huge usize)
InGrid(y, x) == y >= 0 /\ y < BOARD_HEIGHT /\ x >= 0 /\ x < BOARD_WIDTH

\* the read self.cells[y as usize][x as usize] != None: "panic" when out of range
ReadCell(cells, y, x) ==
    IF ~InGrid(y, x) THEN "panic"
    ELSE IF cells[y][x] # None THEN "hit" ELSE "miss"

\* the condition without its tests x < 0 and y < 0
ProbeNoLowerBound(cells, x, y) ==
    IF x >= BOARD_WIDTH \/ y >= BOARD_HEIGHT THEN "hit" ELSE ReadCell(cells, y, x)

\* the condition of collision_test for one point, evaluated left to right
Probe(cells, x, y) ==
    IF x < 0 \/ x >= BOARD_WIDTH \/ y < 0 \/ y >= BOARD_HEIGHT
    THEN "hit"
    ELSE ReadCell(cells, y, x)

\* the closure of collision_test called on each filled cell, with its flag found
RECURSIVE CollisionScan(_, _, _, _, _)
CollisionScan(cells, origin, pts, i, found) ==
    IF i > Len(pts) THEN [ret |-> found, panic |-> FALSE]
    ELSE IF found THEN CollisionScan(cells, origin, pts, i + 1, found)
         ELSE LET x == origin.x + pts[i][2]
                  y == origin.y + pts[i][1]
                  r == Probe(cells, x, y)
              IN  IF r = "panic" THEN [ret |-> found, panic |-> TRUE]
                  ELSE CollisionScan(cells, origin, pts, i + 1, r = "hit")

\* Board::collision_test with the outcome of its indexing
CollisionRun(cells, p, origin) == CollisionScan(cells, origin, each_point(p), 1, FALSE)

\* Board::collision_test
collision_test(cells, p, origin) == CollisionRun(cells, p, origin).ret

\* Board::lock_piece: the writes of the closure, in the order of each_point
RECURSIVE LockScan(_, _, _, _, _)
LockScan(cells, color, origin, pts, i) ==
    IF i > Len(pts) THEN [cells |-> cells, panic |-> FALSE]
    ELSE LET x == origin.x + pts[i][2]
             y == origin.y + pts[i][1]
         IN  IF ~InGrid(y, x) THEN [cells |-> cells, panic |-> TRUE]
             ELSE LockScan([cells EXCEPT ![y] = [@ EXCEPT ![x] = color]],
                           color, origin, pts, i + 1)

lock_piece(cells, p, origin) == LockScan(cells, p.color, origin, each_point(p), 1)

\* !self.cells[row].iter().any(|x| *x == None)
RowFull(r) == \A c \in DOMAIN r : r[c] # None

\* self.cells[row] = self.cells[row - cleared_lines];
\* self.cells[row - cleared_lines] = [None; BOARD_WIDTH]
ShiftRow(cells, row, cleared_lines) ==
    [[cells EXCEPT ![row] = cells[row - cleared_lines]]
        EXCEPT ![row - cleared_lines] = EmptyRow]

\* the while loop of clear_lines; row - cleared_lines below zero is a panic
\* (usize subtraction overflow, or the wrapped index out of range)
RECURSIVE ClearWhile(_, _, _)
ClearWhile(cells, row, cleared_lines) ==
    IF ~RowFull(cells[row])
    THEN [cells |-> cells, ret |-> cleared_lines, panic |-> FALSE]
    ELSE IF row - (cleared_lines + 1) < 0
         THEN [cells |-> cells, ret |-> cleared_lines + 1, panic |-> TRUE]
         ELSE ClearWhile(ShiftRow(cells, row, cleared_lines + 1), row, cleared_lines + 1)

\* for row in (0..self.cells.len()).rev() { ... }
RECURSIVE ClearFrom(_, _, _)
ClearFrom(cells, row, cleared_lines) ==
    IF row < 0 \/ row - cleared_lines < 0
    THEN [cells |-> cells, ret |-> cleared_lines, panic |-> FALSE]
    ELSE LET shifted == IF cleared_lines > 0
                        THEN ShiftRow(cells, row, cleared_lines)
                        ELSE cells
             w == ClearWhile(shifted, row, cleared_lines)
         IN  IF w.panic THEN w ELSE ClearFrom(w.cells, row - 1, w.ret)

\* a clear_lines that finds no full row
ClearNothing(cells) == [cells |-> cells, ret |-> 0, panic |-> FALSE]

\* Board::clear_lines
clear_lines(cells) == ClearFrom(cells, BOARD_HEIGHT - 1, 0)

----------------------------------------------------------------------------
(* PieceBag *)

\* the vec! of fill_bag, in its order
AllPieces == <<new_o, new_l, new_j, new_t, new_s, new_z, new_i>>

\* a swap_remove that drops the last element instead of moving it to place i
RemoveLast(v, i) == [k \in 1..(Len(v) - 1) |-> v[k]]

\* Vec::swap_remove(i) on a sequence indexed from 1: the last element takes the place of element i
swap_remove(v, i) ==
    LET n == Len(v) IN
    [k \in 1..(n - 1) |-> IF k = i + 1 THEN v[n] ELSE v[k]]

\* the while loop of fill_bag; rs[k] is the k-th value of rng.gen::<usize>()
RECURSIVE FillFrom(_, _, _, _)
FillFrom(bag, pool, rs, k) ==
    IF pool = << >> THEN bag
    ELSE LET i == rs[k] % Len(pool)
         IN  FillFrom(Append(bag, pool[i + 1]), swap_remove(pool, i), rs, k + 1)

\* PieceBag::fill_bag
fill_bag(bag, rs) == FillFrom(bag, AllPieces, rs, 1)

\* the random values one fill_bag draws
Draws(values) == [1..Len(AllPieces) -> values]

\* a pop that leaves an emptied bag empty
PopNoRefill(bag, rs) ==
    IF bag = << >> THEN [piece |-> new_o, pieces |-> bag, panic |-> TRUE]
    ELSE [piece |-> Head(bag), pieces |-> Tail(bag), panic |-> FALSE]

\* PieceBag::pop; Vec::remove(0) panics on an empty vector
pop(bag, rs) ==
    IF bag = << >> THEN [piece |-> new_o, pieces |-> bag, panic |-> TRUE]
    ELSE [piece  |-> Head(bag),
          pieces |-> IF Tail(bag) = << >> THEN fill_bag(Tail(bag), rs) ELSE Tail(bag),
          panic  |-> FALSE]

\* PieceBag::peek
peek(bag) ==
    IF bag = << >> THEN [piece |-> new_o, panic |-> TRUE]
    ELSE [piece |-> bag[1], panic |-> FALSE]

----------------------------------------------------------------------------
(* Game: a record of the fields of struct Game; board holds Board::cells.   *)
(* Each method yields the game after the call, its return value and whether *)
(* it panicked (the game is then the one before the call).                  *)

Point(x, y) == [x |-> x, y |-> y]

Outcome(g, ret) == [game |-> g, ret |-> ret, panic |-> FALSE]
Panicked(g) == [game |-> g, ret |-> FALSE, panic |-> TRUE]

\* a move that stores the trial origin before testing it
MoveCommitFirst(g, x, y) ==
    LET new_position == Point(g.piece_position.x + x, g.piece_position.y + y) IN
    Outcome([g EXCEPT !.piece_position = new_position],
            ~collision_test(g.board, g.piece, new_position))

\* Game::move_piece
move_piece(g, x, y) ==
    LET new_position == Point(g.piece_position.x + x, g.piece_position.y + y) IN
    IF collision_test(g.board, g.piece, new_position)
    THEN Outcome(g, FALSE)
    ELSE Outcome([g EXCEPT !.piece_position = new_position], TRUE)

\* a rotation made on the active piece itself instead of a clone
RotateInPlace(g, direction) ==
    LET new_piece == rotate(g.piece, direction) IN
    Outcome([g EXCEPT !.piece = new_piece],
            ~collision_test(g.board, new_piece, g.piece_position))

\* Game::rotate_piece
rotate_piece(g, direction) ==
    LET new_piece == rotate(g.piece, direction) IN
    IF collision_test(g.board, new_piece, g.piece_position)
    THEN Outcome(g, FALSE)
    ELSE Outcome([g EXCEPT !.piece = new_piece], TRUE)

\* a spawn that stores the origin before testing it
PlaceCommitFirst(g) ==
    LET origin == Point((BOARD_WIDTH - ShapeLen(g.piece.shape)) \div 2, 0) IN
    Outcome([g EXCEPT !.piece_position = origin],
            ~collision_test(g.board, g.piece, origin))

\* Game::place_new_piece
place_new_piece(g) ==
    LET origin == Point((BOARD_WIDTH - ShapeLen(g.piece.shape)) \div 2, 0) IN
    IF collision_test(g.board, g.piece, origin)
    THEN Outcome(g, FALSE)
    ELSE Outcome([g EXCEPT !.piece_position = origin], TRUE)

\* self.score % 10 == 0 && self.score != 0
LevelUp(score) == score % LevelEvery = 0 /\ score # 0

\* Game::advance_game; rs are the values fill_bag draws if the pop empties the bag
advance_game(g, rs) ==
    LET m == move_piece(g, 0, 1) IN
    IF m.ret THEN Outcome(m.game, TRUE)
    ELSE LET l == lock_piece(g.board, g.piece, g.piece_position) IN
         IF l.panic THEN Panicked(g)
         ELSE LET c == clear_lines(l.cells) IN
              IF c.panic THEN Panicked(g)
              ELSE LET score == g.score + c.ret
                       level == IF LevelUp(score) THEN g.level + 1 ELSE g.level
                       b == pop(g.piece_bag, rs)
                       g1 == [g EXCEPT !.board = c.cells, !.score = score,
                                       !.level = level, !.piece = b.piece,
                                       !.piece_bag = b.pieces]
                   IN  IF b.panic THEN Panicked(g)
                       ELSE Outcome(place_new_piece(g1).game, place_new_piece(g1).ret)

\* a loop that moves the piece down once at most
DropLoopOnce(g) == move_piece(g, 0, 1).game

\* while self.move_piece(0, 1) {}
RECURSIVE DropLoop(_)
DropLoop(g) ==
    LET m == move_piece(g, 0, 1) IN
    IF m.ret THEN DropLoop(m.game) ELSE g

\* Game::drop_piece
drop_piece(g, rs) == advance_game(DropLoop(g), rs)

\* Key: the named variants, and Char(c) written as the character c
Char(c) == c
Keys == {"Up", "Down", "Left", "Right", "Space", "CtrlC",
         Char("z"), Char("q"), Char("e"), Char("x")}

\* Game::keypress
keypress(g, key, rs) ==
    CASE key = "Left"    -> move_piece(g, -1, 0)
      [] key = "Right"   -> move_piece(g, 1, 0)
      [] key = "Down"    -> advance_game(g, rs)
      [] key = "Up"      -> rotate_piece(g, Left)
      [] key = "Space"   -> drop_piece(g, rs)
      [] key = Char("q") -> rotate_piece(g, Left)
      [] key = Char("e") -> rotate_piece(g, Right)
      [] OTHER           -> Outcome(g, FALSE)

\* the loop of find_dropped_position
RECURSIVE FindDropFrom(_, _)
FindDropFrom(g, origin) ==
    IF ~collision_test(g.board, g.piece, origin)
    THEN FindDropFrom(g, [origin EXCEPT !.y = @ + 1])
    ELSE [origin EXCEPT !.y = @ - 1]

\* Game::find_dropped_position
find_dropped_position(g) == FindDropFrom(g, g.piece_position)

\* Game::new; place_new_piece's result is dropped
NewGame(rs) ==
    LET b == pop(fill_bag(<< >>, rs), rs)
        g == [board          |-> EmptyCells,
              piece_bag      |-> b.pieces,
              piece          |-> b.piece,
              piece_position |-> Point(0, 0),
              score          |-> 0,
              level          |-> 1,
              duration       |-> 0]
    IN  place_new_piece(g).game

----------------------------------------------------------------------------
(* Game::play: three producer threads and the main loop *)

VARIABLES
    game,            \* the Game that play borrows
    duration,        \* play's local duration, as the main loop sees it
    ticker_duration, \* the copy of duration moved into the ticker's closure
    feed_duration,   \* the copy of duration moved into the feed's closure
    previous_price,  \* the feed's previous_price
    rx_event,        \* the events in the channel (tx_event, rx_event)
    rx_duration,     \* the values in the channel (tx_duration, rx_duration)
    session,         \* "running", "quit" (the loop broke) or "panicked"
    game_over,       \* advance_game has returned false
    budget,          \* events the producers may still emit; Unlimited for no limit
    sent,            \* tag of the latest event emitted
    dispatched,      \* tag of the latest event the main loop dispatched
    call             \* the latest call of the Board harness

vars == <<game, duration, ticker_duration, feed_duration, previous_price,
          rx_event, rx_duration, session, game_over, budget, sent, dispatched, call>>

playVars == <<duration, ticker_duration, feed_duration, previous_price,
              rx_event, rx_duration, session, game_over, budget, sent, dispatched>>

Unlimited == 0 - 1

\* tags count the events modulo TagMod, more than the channel holds
TagMod == MaxQueue + 2
NextTag(t) == (t + 1) % TagMod

\* GameUpdate
KeyPress(k) == [kind |-> "KeyPress", key |-> k, value |-> 0]
Tick == [kind |-> "Tick", key |-> "-", value |-> 0]
DurationUpdate(v) == [kind |-> "DurationUpdate", key |-> "-", value |-> v]

\* the draws of one fill_bag while playing
GameDraws == {[k \in 1..Len(AllPieces) |-> n] : n \in 0..RngMax}

\* the draws a call into g can consume: fill_bag runs only when a pop takes the last piece
DrawsFor(g) ==
    IF Len(g.piece_bag) = 1 THEN GameDraws ELSE {[k \in 1..Len(AllPieces) |-> 0]}

NoCall == [op |-> "none"]

\* the state when play has spawned its threads, for a Game made by Game::new
InitPlay(g, b) ==
    /\ game = g
    /\ duration = InitialDuration
    /\ ticker_duration = InitialDuration
    /\ feed_duration = InitialDuration
    /\ previous_price = 0
    /\ rx_event = << >>
    /\ rx_duration = << >>
    /\ session = "running"
    /\ game_over = FALSE
    /\ budget = b
    /\ sent = 0
    /\ dispatched = 0
    /\ call = NoCall

Init == \E rs \in GameDraws : InitPlay(NewGame(rs), MaxEvents)

\* tx_event.send(e): the channel is unbounded; the model stops at MaxQueue waiting events
CanSend == budget # 0 /\ Len(rx_event) < MaxQueue

Send(e) ==
    /\ rx_event' = Append(rx_event, [event |-> e, tag |-> NextTag(sent)])
    /\ sent' = NextTag(sent)
    /\ budget' = IF budget > 0 THEN budget - 1 ELSE budget

\* one iteration of the ticker thread: sleep(duration), send Tick
TickerStep ==
    /\ CanSend
    /\ Send(Tick)
    /\ UNCHANGED <<game, duration, ticker_duration, feed_duration, previous_price,
                   rx_duration, session, game_over, dispatched, call>>

\* one iteration of the input thread with get_input returning Some(k)
InputStep(k) ==
    /\ CanSend
    /\ Send(KeyPress(k))
    /\ UNCHANGED <<game, duration, ticker_duration, feed_duration, previous_price,
                   rx_duration, session, game_over, dispatched, call>>

\* percentage_change > 0.0, for percentage_change = (current - previous) / previous * 100
PercentagePositive(current_price, previous) ==
    (current_price - previous) * previous > 0

\* a feed that lowers the interval without testing duration >= 500
NextDurationNoFloor(d, current_price, previous) ==
    IF previous # 0
    THEN IF PercentagePositive(current_price, previous)
         THEN d - DurationStep
         ELSE d + DurationStep
    ELSE d

\* the feed's new duration after a reading
NextDuration(d, current_price, previous) ==
    IF previous # 0
    THEN IF PercentagePositive(current_price, previous) /\ d >= DurationStep
         THEN d - DurationStep
         ELSE d + DurationStep
    ELSE d

\* one iteration of the difficulty feed thread, reading current_price
FeedStep(current_price) ==
    LET d == NextDuration(feed_duration, current_price, previous_price) IN
    /\ CanSend
    /\ feed_duration' = d
    /\ previous_price' = current_price
    /\ rx_duration' = Append(rx_duration, d)
    /\ Send(DurationUpdate(d))
    /\ UNCHANGED <<game, duration, ticker_duration, session, game_over, dispatched, call>>

\* rx_event.recv() returns Ok(update): the oldest event leaves the channel
Receiving == session = "running" /\ rx_event # << >>
           /\ game.score < MaxScore /\ game.level < MaxLevel
Update == Head(rx_event).event
\* a receive that hands over the newest event instead of the oldest
RecvNewest ==
    /\ dispatched' = rx_event[Len(rx_event)].tag
    /\ rx_event' = SubSeq(rx_event, 1, Len(rx_event) - 1)

Recv ==
    /\ dispatched' = Head(rx_event).tag
    /\ rx_event' = Tail(rx_event)

\* what a call into Game leaves behind
Apply(o, advanced) ==
    /\ game' = o.game
    /\ session' = IF o.panic THEN "panicked" ELSE session
    /\ game_over' = (game_over \/ (advanced /\ ~o.panic /\ ~o.ret))

\* a loop that breaks on CtrlC alone
QuitKeysCtrlCOnly == {"CtrlC"}

QuitKeys == {"CtrlC", Char("z")}

\* Key::Char('z') | Key::CtrlC => break
RecvQuit ==
    /\ Receiving
    /\ Update.kind = "KeyPress" /\ Update.key \in QuitKeys
    /\ Recv
    /\ session' = "quit"
    /\ UNCHANGED <<game, duration, ticker_duration, feed_duration, previous_price,
                   rx_duration, game_over, budget, sent, call>>

\* k => self.keypress(k)
RecvKey ==
    /\ Receiving
    /\ Update.kind = "KeyPress" /\ Update.key \notin QuitKeys
    /\ Recv
    /\ \E rs \in DrawsFor(game) :
          Apply(keypress(game, Update.key, rs), Update.key \in {"Down", "Space"})
    /\ UNCHANGED <<duration, ticker_duration, feed_duration, previous_price,
                   rx_duration, budget, sent, call>>

\* GameUpdate::Tick => self.advance_game()
RecvTick ==
    /\ Receiving
    /\ Update.kind = "Tick"
    /\ Recv
    /\ \E rs \in DrawsFor(game) : Apply(advance_game(game, rs), TRUE)
    /\ UNCHANGED <<duration, ticker_duration, feed_duration, previous_price,
                   rx_duration, budget, sent, call>>

\* GameUpdate::DurationUpdate(new_duration)
RecvDuration ==
    /\ Receiving
    /\ Update.kind = "DurationUpdate"
    /\ Recv
    /\ duration' = Update.value
    /\ game' = [game EXCEPT !.duration = Update.value]
    /\ UNCHANGED <<ticker_duration, feed_duration, previous_price,
                   rx_duration, session, game_over, budget, sent, call>>

Prices == 0..MaxPrice

Next ==
    \/ TickerStep
    \/ \E k \in Keys : InputStep(k)
    \/ \E current_price \in Prices : FeedStep(current_price)
    \/ RecvQuit
    \/ RecvKey
    \/ RecvTick
    \/ RecvDuration

Spec == Init /\ [][Next]_vars

(***************************************************************************)
(* A long session: no limit on the number of events; the player steers     *)
(* with Left, Right, Up and Space while the ticker runs, and the feed is   *)
(* silent.  It ends where the score or the level reaches its bound.        *)
(***************************************************************************)
InitLong == \E rs \in GameDraws : InitPlay(NewGame(rs), Unlimited)

SteerKeys == {"Left", "Right", "Up", "Space"}

Steer == \E k \in SteerKeys : InputStep(k)

NextLong ==
    \/ TickerStep
    \/ Steer
    \/ RecvKey
    \/ RecvTick

SpecLong == InitLong /\ [][NextLong]_vars

----------------------------------------------------------------------------
(* The Board harness: Board's methods called on boards, pieces and origins  *)
(* drawn from bounded sets.                                                 *)

\* a row with the cells of the columns in cols filled
RowWith(cols, color) == [c \in 0..(BOARD_WIDTH - 1) |-> IF c \in cols THEN color ELSE None]
FullRow == RowWith(0..(BOARD_WIDTH - 1), "Red")

\* boards for clear_lines: each row is full, empty, or holds one cell that tells the rows apart
RowKinds == {"full", "empty", "marked"}
BoardOfKinds(kinds) ==
    [r \in 0..(BOARD_HEIGHT - 1) |->
        CASE kinds[r] = "full"   -> FullRow
          [] kinds[r] = "empty"  -> EmptyRow
          [] OTHER               -> RowWith({r % BOARD_WIDTH}, "Blue")]
ClearBoards == {BoardOfKinds(kinds) : kinds \in [0..(BOARD_HEIGHT - 1) -> RowKinds]}

\* boards for collision_test: the empty board, every board with one occupied cell, the full board
OneCell(y, x) == [EmptyCells EXCEPT ![y] = [@ EXCEPT ![x] = "Green"]]
CollisionBoards ==
    {EmptyCells, [r \in 0..(BOARD_HEIGHT - 1) |-> FullRow]}
    \cup {OneCell(y, x) : y \in 0..(BOARD_HEIGHT - 1), x \in 0..(BOARD_WIDTH - 1)}

\* the seven shapes in every rotation
RECURSIVE Turned(_, _)
Turned(p, n) == IF n = 0 THEN p ELSE Turned(rotate(p, Right), n - 1)
TestPieces == {Turned(AllPieces[i], n) : i \in 1..Len(AllPieces), n \in 0..3}

\* origins from Margin cells before the grid to Margin cells past it
TestOrigins ==
    {Point(x, y) : x \in (0 - Margin)..(BOARD_WIDTH - 1 + Margin),
                   y \in (0 - Margin)..(BOARD_HEIGHT - 1 + Margin)}

HarnessGame(cells, p, origin) ==
    [board          |-> cells,
     piece_bag      |-> AllPieces,
     piece          |-> p,
     piece_position |-> origin,
     score          |-> 0,
     level          |-> 1,
     duration       |-> 0]

InitBoard ==
    \/ \E cells \in CollisionBoards, p \in TestPieces, origin \in TestOrigins :
          InitPlay(HarnessGame(cells, p, origin), 0)
    \/ \E cells \in ClearBoards : InitPlay(HarnessGame(cells, new_o, Point(0, 0)), 0)

\* board.collision_test(&piece, piece_position)
CallCollisionTest ==
    /\ call = NoCall
    /\ call' = [op |-> "collision_test", board |-> game.board,
                ret |-> CollisionRun(game.board, game.piece, game.piece_position).ret,
                panic |-> CollisionRun(game.board, game.piece, game.piece_position).panic]
    /\ UNCHANGED <<game, playVars>>

\* board.clear_lines()
CallClearLines ==
    LET c == clear_lines(game.board) IN
    /\ call = NoCall
    /\ call' = [op |-> "clear_lines", board |-> game.board, ret |-> c.ret, panic |-> c.panic]
    /\ game' = [game EXCEPT !.board = IF c.panic THEN game.board ELSE c.cells]
    /\ UNCHANGED playVars

NextBoard ==
    \/ CallCollisionTest
    \/ CallClearLines

SpecBoard == InitBoard /\ [][NextBoard]_vars

----------------------------------------------------------------------------
(* The PieceBag harness: a bag made by PieceBag::new, then pop and peek     *)
(* called on it in any order, every fill drawing its values independently.  *)
(* call.run holds the pieces popped since the latest bag boundary, in the   *)
(* order of the pops; once it holds a whole bag the next pop starts it anew.*)

\* every value of one fill_bag is drawn from 0..BagRngMax; the k-th value is
\* taken modulo the Len(AllPieces) - k + 1 pieces left to choose from, and one
\* value stands for all the values that choose the same piece
BagDraws ==
    {rs \in Draws(0..BagRngMax) : \A k \in DOMAIN rs : rs[k] <= Len(AllPieces) - k}

\* the draws a pop of this bag can consume
BagDrawsFor(bag) ==
    IF Len(bag) = 1 THEN BagDraws ELSE {[k \in 1..Len(AllPieces) |-> 0]}

\* PieceBag::new
PieceBag_new(rs) == fill_bag(<< >>, rs)

InitBag ==
    /\ \E rs \in BagDraws :
          game = [HarnessGame(EmptyCells, new_o, Point(0, 0))
                     EXCEPT !.piece_bag = PieceBag_new(rs)]
    /\ duration = InitialDuration
    /\ ticker_duration = InitialDuration
    /\ feed_duration = InitialDuration
    /\ previous_price = 0
    /\ rx_event = << >>
    /\ rx_duration = << >>
    /\ session = "running"
    /\ game_over = FALSE
    /\ budget = 0
    /\ sent = 0
    /\ dispatched = 0
    /\ call = [op |-> "new", ret |-> new_o, panic |-> FALSE,
               bag |-> << >>, run |-> << >>, pops |-> 0]

\* piece_bag.pop()
CallPop ==
    /\ call.pops < MaxPops
    /\ ~call.panic
    /\ \E rs \in BagDrawsFor(game.piece_bag) :
          LET b == pop(game.piece_bag, rs) IN
          /\ game' = [game EXCEPT !.piece_bag = b.pieces]
          /\ call' = [op    |-> "pop",
                      ret   |-> b.piece,
                      panic |-> b.panic,
                      bag   |-> game.piece_bag,
                      run   |-> IF b.panic THEN call.run
                                ELSE IF Len(call.run) = Len(AllPieces)
                                     THEN <<b.piece>>
                                     ELSE Append(call.run, b.piece),
                      pops  |-> call.pops + 1]
    /\ UNCHANGED playVars

\* piece_bag.peek()
CallPeek ==
    /\ ~call.panic
    /\ call' = [call EXCEPT !.op = "peek",
                            !.ret = peek(game.piece_bag).piece,
                            !.panic = peek(game.piece_bag).panic,
                            !.bag = game.piece_bag]
    /\ UNCHANGED <<game, playVars>>

NextBag ==
    \/ CallPop
    \/ CallPeek

SpecBag == InitBag /\ [][NextBag]_vars

----------------------------------------------------------------------------
(* The Piece harness: Piece::rotate called on the seven pieces and on every *)
(* square 0/1 matrix of their sizes.  call.from is the piece before the     *)
(* latest run of rotations in one direction, call.turns their number.       *)

\* shape.len() of the pieces: new_o is 2 x 2, new_i 4 x 4, the others 3 x 3
ShapeSizes == {ShapeLen(AllPieces[i].shape) : i \in 1..Len(AllPieces)}

\* every N x N matrix of 0 and 1
Matrices(N) == [0..(N - 1) -> [0..(N - 1) -> {0, 1}]]

RotatePieces ==
    {AllPieces[i] : i \in 1..Len(AllPieces)}
    \cup {[color |-> "Red", shape |-> m] : m \in UNION {Matrices(N) : N \in ShapeSizes}}

InitPiece ==
    /\ \E p \in RotatePieces : game = HarnessGame(EmptyCells, p, Point(0, 0))
    /\ duration = InitialDuration
    /\ ticker_duration = InitialDuration
    /\ feed_duration = InitialDuration
    /\ previous_price = 0
    /\ rx_event = << >>
    /\ rx_duration = << >>
    /\ session = "running"
    /\ game_over = FALSE
    /\ budget = 0
    /\ sent = 0
    /\ dispatched = 0
    /\ call = [op |-> "piece", from |-> game.piece, direction |-> Right, turns |-> 0]

\* piece.rotate(direction)
CallRotate(direction) ==
    /\ call.turns < MaxTurns
    /\ game' = [game EXCEPT !.piece = rotate(game.piece, direction)]
    /\ call' = IF call.op = "rotate" /\ call.direction = direction
               THEN [call EXCEPT !.turns = @ + 1]
               ELSE [op |-> "rotate", from |-> game.piece,
                     direction |-> direction, turns |-> 1]
    /\ UNCHANGED playVars

NextPiece == \E direction \in {Left, Right} : CallRotate(direction)

SpecPiece == InitPiece /\ [][NextPiece]_vars

----------------------------------------------------------------------------
(* The Game harness: the methods of Game called one after another on a game *)
(* made by Game::new.  call holds the latest call: the game before it, its  *)
(* argument and what it returned.                                           *)

\* pieces popped from the current fill of the bag
Pops(g) == Len(AllPieces) - Len(g.piece_bag)

\* the steps the program moves a piece by: keypress Left and Right, advance_game and drop_piece
Moves == {Point(0 - 1, 0), Point(1, 0), Point(0, 1)}

Called(op, arg, o) ==
    [op |-> op, before |-> game, arg |-> arg, ret |-> o.ret, panic |-> o.panic]

InitGame == \E rs \in GameDraws : InitPlay(NewGame(rs), 0)

\* game.move_piece(x, y)
CallMovePiece(step) ==
    LET o == move_piece(game, step.x, step.y) IN
    /\ session = "running"
    /\ call' = Called("move_piece", step, o)
    /\ Apply(o, FALSE)
    /\ UNCHANGED <<duration, ticker_duration, feed_duration, previous_price,
                   rx_event, rx_duration, budget, sent, dispatched>>

\* game.rotate_piece(direction)
CallRotatePiece(direction) ==
    LET o == rotate_piece(game, direction) IN
    /\ session = "running"
    /\ call' = Called("rotate_piece", direction, o)
    /\ Apply(o, FALSE)
    /\ UNCHANGED <<duration, ticker_duration, feed_duration, previous_price,
                   rx_event, rx_duration, budget, sent, dispatched>>

\* game.place_new_piece()
CallPlaceNewPiece ==
    LET o == place_new_piece(game) IN
    /\ session = "running"
    /\ call' = Called("place_new_piece", "-", o)
    /\ Apply(o, FALSE)
    /\ UNCHANGED <<duration, ticker_duration, feed_duration, previous_price,
                   rx_event, rx_duration, budget, sent, dispatched>>

\* game.find_dropped_position()
CallFindDroppedPosition ==
    /\ session = "running"
    /\ call' = [op |-> "find_dropped_position", before |-> game, arg |-> "-",
                ret |-> find_dropped_position(game), panic |-> FALSE]
    /\ UNCHANGED <<game, playVars>>

\* game.drop_piece(), while fewer than MaxLocks pieces have been locked
CallDropPiece ==
    /\ session = "running"
    /\ Pops(game) <= MaxLocks
    /\ \E rs \in DrawsFor(game) :
          LET o == drop_piece(game, rs) IN
          /\ call' = Called("drop_piece", "-", o)
          /\ Apply(o, TRUE)
    /\ UNCHANGED <<duration, ticker_duration, feed_duration, previous_price,
                   rx_event, rx_duration, budget, sent, dispatched>>

NextGame ==
    \/ \E step \in Moves : CallMovePiece(step)
    \/ \E direction \in {Left, Right} : CallRotatePiece(direction)
    \/ CallPlaceNewPiece
    \/ CallFindDroppedPosition
    \/ CallDropPiece

SpecGame == InitGame /\ [][NextGame]_vars

----------------------------------------------------------------------------
(* Properties *)

\* the events waiting in the channel
Waiting == {rx_event[i].event : i \in 1..Len(rx_event)}

\* C1: once advance_game has returned false the session is over: no later
\* event changes the board, the active piece, the score or the level.
C1_GameOverIsTerminal ==
    [][game_over => /\ game'.board = game.board
                    /\ game'.piece = game.piece
                    /\ game'.score = game.score
                    /\ game'.level = game.level]_vars

\* C2: the events in the channel are exactly those emitted and not yet
\* dispatched, oldest first: the tags run on from the tag of the latest
\* dispatched event up to the tag of the latest emitted one, so no event is
\* lost, dispatched twice or overtaken.
C2_InOrderExactlyOnce ==
    /\ \A i \in 1..Len(rx_event) : rx_event[i].tag = (dispatched + i) % TagMod
    /\ sent = (dispatched + Len(rx_event)) % TagMod

\* two events of different producers wait while an earlier one is dispatched
C2_Witness ==
    /\ Len(rx_event) = 2
    /\ rx_event[1].event.kind # rx_event[2].event.kind
    /\ dispatched = 1
    /\ session = "running"

\* C3: the interval the ticker sleeps on is the one the main loop stored
\* from the latest DurationUpdate (the initial one when there was none).
C3_TickerSleepsOnLatest == ticker_duration = duration

\* C4: dequeuing KeyPress(CtrlC) or KeyPress(Char('z')) ends the loop and
\* leaves the game as it was, and after that nothing is dequeued or applied.
C4_QuitEndsSession ==
    [][/\ (/\ session = "running"
           /\ rx_event # << >>
           /\ Head(rx_event).event.kind = "KeyPress"
           /\ Head(rx_event).event.key \in {"CtrlC", "z"}
           /\ dispatched' # dispatched)
          => (session' = "quit" /\ game' = game)
       /\ session = "quit"
          => (session' = "quit" /\ game' = game /\ dispatched' = dispatched)]_vars

\* the loop has broken while another event waits in the channel
C4_Witness == session = "quit" /\ rx_event # << >>

\* C5: every interval the feed emits is at least the step.
C5_AtLeastStep ==
    \A e \in Waiting : e.kind = "DurationUpdate" => e.value >= DurationStep

\* C5, amended: every interval the feed emits is at least the initial
\* interval, and exceeds it by a multiple of the step.
C5_AtLeastInitial ==
    \A e \in Waiting :
        e.kind = "DurationUpdate" =>
            /\ e.value >= InitialDuration
            /\ (e.value - InitialDuration) % DurationStep = 0

\* the feed has raised the interval and lowered it again, and emits the result
C5_Witness ==
    /\ Len(rx_duration) = 3
    /\ rx_duration[2] > rx_duration[3]
    /\ DurationUpdate(rx_duration[3]) \in Waiting

\* the filled cells of a piece
Filled(p) ==
    {rc \in (DOMAIN p.shape) \X (DOMAIN p.shape) : p.shape[rc[1]][rc[2]] # 0}

\* some filled cell lies outside the grid or on an occupied cell
Collides(cells, p, origin) ==
    \E rc \in Filled(p) :
        LET x == origin.x + rc[2]
            y == origin.y + rc[1]
        IN  \/ x \notin 0..(BOARD_WIDTH - 1)
            \/ y \notin 0..(BOARD_HEIGHT - 1)
            \/ cells[y][x] # None

\* C6: collision_test returns true iff some filled cell of the piece maps
\* outside the grid or onto an occupied cell; it never indexes outside the
\* grid and leaves the board as it was.
C6_CollisionIff ==
    call.op = "collision_test" =>
        /\ ~call.panic
        /\ call.ret = Collides(call.board, game.piece, game.piece_position)
        /\ game.board = call.board

\* a piece partly left of or above the grid that collides with nothing else
C6_Witness ==
    /\ call.op = "collision_test"
    /\ call.ret
    /\ call.board = EmptyCells
    /\ (game.piece_position.x < 0 \/ game.piece_position.y < 0)

\* the rows of a board from top to bottom, as a sequence
RowsOf(cells) == [i \in 1..BOARD_HEIGHT |-> cells[i - 1]]
NotFull(r) == ~RowFull(r)
FullRows(cells) == {r \in DOMAIN cells : RowFull(cells[r])}

\* the rows that are not full, in their order, under as many empty rows as were full
Compacted(cells) ==
    LET kept == SelectSeq(RowsOf(cells), NotFull)
        n    == BOARD_HEIGHT - Len(kept)
    IN  [r \in 0..(BOARD_HEIGHT - 1) |-> IF r < n THEN EmptyRow ELSE kept[r - n + 1]]

\* C7: clear_lines returns the number of full rows and leaves the rows that
\* were not full, in their order, at the bottom under that many empty rows.
C7_ClearLinesCompacts ==
    call.op = "clear_lines" =>
        /\ ~call.panic
        /\ call.ret = Cardinality(FullRows(call.board))
        /\ game.board = Compacted(call.board)

\* C8: on a board whose every row is full, clear_lines returns BOARD_HEIGHT
\* and leaves the board empty.
C8_AllRowsFull ==
    (call.op = "clear_lines" /\ FullRows(call.board) = DOMAIN call.board) =>
        /\ ~call.panic
        /\ call.ret = BOARD_HEIGHT
        /\ game.board = EmptyCells

\* C9: while no spawn has been blocked, the level is 1 below score 10 and
\* 2 at score 10, however many pieces lock while the score stays 10.
C9_LevelTwoAtTen ==
    ~game_over =>
        /\ game.score < LevelEvery => game.level = 1
        /\ game.score = LevelEvery => game.level = 2

\* C10: while no spawn has been blocked, level = 1 + floor(score / 10).
C10_LevelTracksScore ==
    ~game_over => game.level = 1 + (game.score \div LevelEvery)

\* the seven tetromino shapes
SevenShapes == {new_o, new_i, new_s, new_z, new_l, new_j, new_t}

\* s holds each of the seven shapes exactly once
IsPermutation(s) ==
    /\ Len(s) = Cardinality(SevenShapes)
    /\ \A p \in SevenShapes : Cardinality({i \in DOMAIN s : s[i] = p}) = 1

\* C11: every fill is a permutation of the seven shapes and pop hands out
\* the bag's pieces first in, first out: the pieces popped since a bag
\* boundary followed by the pieces still in that fill are a permutation, a
\* fresh bag is one, and a whole run of seven pops is one.
C11_BagIsPermutation ==
    call.op \in {"new", "pop", "peek"} =>
        /\ call.op = "pop" =>
              /\ call.ret = call.bag[1]
              /\ call.run[Len(call.run)] = call.ret
        /\ IF Len(call.run) = Cardinality(SevenShapes)
           THEN IsPermutation(call.run) /\ IsPermutation(game.piece_bag)
           ELSE IsPermutation(call.run \o game.piece_bag)

\* seven pops have emptied the first fill, whose draws were not all alike
C11_Witness ==
    /\ call.op = "pop"
    /\ call.pops = Cardinality(SevenShapes)
    /\ Len(call.run) = Cardinality(SevenShapes)
    /\ call.run # AllPieces
    /\ call.run[1] # new_o

\* C12: the bag always holds 1 to 7 pieces; a pop refills exactly when it
\* takes the last piece, with seven pieces, and otherwise only removes the
\* first; peek does not fail, leaves the bag as it was and returns the piece
\* the next pop returns.
C12_BagNeverEmpty ==
    call.op \in {"new", "pop", "peek"} =>
        /\ Len(game.piece_bag) \in 1..Cardinality(SevenShapes)
        /\ ~call.panic
        /\ call.op = "pop" =>
              IF Len(call.bag) = 1
              THEN Len(game.piece_bag) = Cardinality(SevenShapes)
              ELSE game.piece_bag = Tail(call.bag)
        /\ call.op = "peek" =>
              /\ game.piece_bag = call.bag
              /\ \A rs \in BagDrawsFor(game.piece_bag) :
                    pop(game.piece_bag, rs).piece = call.ret

\* peek is called on the bag that the seventh pop has refilled
C12_Witness ==
    /\ call.op = "peek"
    /\ call.pops = Cardinality(SevenShapes)
    /\ Len(game.piece_bag) = Cardinality(SevenShapes)

\* the matrix mirrored in its diagonal
Transpose(m) == [r \in DOMAIN m |-> [c \in DOMAIN m |-> m[c][r]]]
\* every row read from its end
ReverseRows(m) ==
    [r \in DOMAIN m |-> [c \in DOMAIN m |-> m[r][Cardinality(DOMAIN m) - 1 - c]]]
\* the rows in the opposite order
ReverseOrder(m) == [r \in DOMAIN m |-> m[Cardinality(DOMAIN m) - 1 - r]]

\* a quarter turn clockwise, and one counter-clockwise
Clockwise(m) == ReverseRows(Transpose(m))
CounterClockwise(m) == ReverseOrder(Transpose(m))

\* the number of cells of m that are not 0
FilledCount(m) ==
    Cardinality({rc \in (DOMAIN m) \X (DOMAIN m) : m[rc[1]][rc[2]] # 0})

\* C13: four rotations in one direction give each of the seven pieces its
\* shape back.
C13_FourTurnsIdentity ==
    (call.op = "rotate" /\ call.turns = 4 /\ call.from \in SevenShapes) =>
        game.piece = call.from

\* the L piece has been turned left four times
C13_Witness ==
    /\ call.op = "rotate"
    /\ call.turns = 4
    /\ call.direction = Left
    /\ call.from = new_l

\* C14: on every square 0/1 matrix of size 2, 3 or 4, rotate(Right) is the
\* quarter turn clockwise (transpose, then reverse the rows), rotate(Left)
\* the quarter turn counter-clockwise, and the number of filled cells stays.
C14_RotateIsQuarterTurn ==
    (call.op = "rotate" /\ call.turns = 1) =>
        /\ game.piece.shape = IF call.direction = Right
                              THEN Clockwise(call.from.shape)
                              ELSE CounterClockwise(call.from.shape)
        /\ game.piece.color = call.from.color
        /\ FilledCount(game.piece.shape) = FilledCount(call.from.shape)

\* a 4 x 4 matrix that differs from both of its quarter turns, turned right
C14_Witness ==
    /\ call.op = "rotate"
    /\ call.turns = 1
    /\ call.direction = Right
    /\ ShapeLen(call.from.shape) = 4
    /\ call.from.shape[1][1] = 1
    /\ call.from.shape[1][2] = 0
    /\ game.piece.shape # call.from.shape
    /\ game.piece.shape # CounterClockwise(call.from.shape)

\* the board with the filled cells of p, at origin, painted in p's colour
Stamp(cells, p, origin) ==
    [r \in DOMAIN cells |->
        [c \in DOMAIN cells[r] |->
            IF <<r - origin.y, c - origin.x>> \in Filled(p) THEN p.color ELSE cells[r][c]]]

\* the cells of a board that are occupied
Occupied(cells) ==
    {rc \in (0..(BOARD_HEIGHT - 1)) \X (0..(BOARD_WIDTH - 1)) : cells[rc[1]][rc[2]] # None}

\* the lowest row the active piece of g reaches by moving straight down
Landing(g) ==
    CHOOSE y \in g.piece_position.y..BOARD_HEIGHT :
        /\ \A yy \in g.piece_position.y..y :
              ~Collides(g.board, g.piece, Point(g.piece_position.x, yy))
        /\ Collides(g.board, g.piece, Point(g.piece_position.x, y + 1))

\* the active piece of g does not collide where it is
Free(g) == ~Collides(g.board, g.piece, g.piece_position)

\* C15: drop_piece, called while the active piece does not collide, locks
\* it at the origin find_dropped_position returns (same x, the lowest row
\* reached by moving straight down), once: the piece's cells are added to
\* the board, the rows this completes are cleared and counted into the
\* score, and one piece is popped; find_dropped_position changes nothing.
C15_DropLocksAtDroppedPosition ==
    /\ (call.op = "drop_piece" /\ Free(call.before)) =>
          LET b == call.before
              at == Point(b.piece_position.x, Landing(b))
              locked == Stamp(b.board, b.piece, at)
          IN  /\ ~call.panic
              /\ find_dropped_position(b) = at
              /\ Cardinality(Occupied(locked))
                    = Cardinality(Occupied(b.board)) + FilledCount(b.piece.shape)
              /\ game.board = Compacted(locked)
              /\ game.score = b.score + Cardinality(FullRows(locked))
              /\ game.piece = b.piece_bag[1]
              /\ \/ game.piece_bag = Tail(b.piece_bag)
                 \/ Len(b.piece_bag) = 1 /\ IsPermutation(game.piece_bag)
    /\ call.op = "find_dropped_position" =>
          /\ game = call.before
          /\ Free(game) => call.ret = Point(game.piece_position.x, Landing(game))

\* the O piece dropped from its spawn origin on the empty board: it ends in
\* the bottom two rows and the score stays 0
C15_Witness ==
    /\ call.op = "drop_piece"
    /\ call.before.board = EmptyCells
    /\ call.before.piece = new_o
    /\ call.before.piece_position = Point((BOARD_WIDTH - 2) \div 2, 0)
    /\ game.score = 0
    /\ Occupied(game.board) =
          ((BOARD_HEIGHT - 2)..(BOARD_HEIGHT - 1))
              \X (((BOARD_WIDTH - 2) \div 2)..((BOARD_WIDTH - 2) \div 2 + 1))

\* C16: the active piece never collides where it is, so that every lock
\* writes inside the grid and on empty cells only.
C16_ActivePieceFree == Free(game)

\* a step of the difficulty feed, which sends one more interval
FeedSends == Len(rx_duration') = Len(rx_duration) + 1

\* C17: for a reading that follows another one, the feed lowers the
\* interval by the step when the signal rose, or keeps it where lowering
\* would go below zero, and raises it by the step otherwise; it never raises
\* the interval on a reading that rose.
C17_FeedFollowsSignal ==
    [][(FeedSends /\ previous_price # 0) =>
          IF previous_price' > previous_price
          THEN feed_duration' = IF feed_duration >= DurationStep
                                THEN feed_duration - DurationStep
                                ELSE feed_duration
          ELSE feed_duration' = feed_duration + DurationStep]_vars

\* C18: move_piece(dx, dy) returns false and changes nothing when the piece
\* collides at origin + (dx, dy); otherwise it returns true and changes the
\* origin to origin + (dx, dy) and nothing else.
C18_MovePiece ==
    call.op = "move_piece" =>
        LET b == call.before
            target == Point(b.piece_position.x + call.arg.x,
                            b.piece_position.y + call.arg.y)
        IN  /\ ~call.panic
            /\ IF Collides(b.board, b.piece, target)
               THEN ~call.ret /\ game = b
               ELSE call.ret /\ game = [b EXCEPT !.piece_position = target]

\* a move sideways refused because of a locked cell, not of a wall
C18_Witness ==
    /\ call.op = "move_piece"
    /\ ~call.ret
    /\ call.arg.y = 0
    /\ \A rc \in Filled(game.piece) :
          InGrid(game.piece_position.y + rc[1],
                 game.piece_position.x + call.arg.x + rc[2])

\* C19: rotate_piece tests the rotated copy at the current origin: when it
\* collides the call returns false and changes nothing, otherwise it returns
\* true and the active piece becomes the rotated copy; origin, board, bag,
\* score and level stay in both cases.
C19_RotatePiece ==
    call.op = "rotate_piece" =>
        LET b == call.before
            turned == [b.piece EXCEPT !.shape = IF call.arg = Right
                                                THEN Clockwise(@)
                                                ELSE CounterClockwise(@)]
        IN  /\ ~call.panic
            /\ IF Collides(b.board, turned, b.piece_position)
               THEN ~call.ret /\ game = b
               ELSE call.ret /\ game = [b EXCEPT !.piece = turned]

\* a rotation refused where the piece itself does not collide
C19_Witness ==
    /\ call.op = "rotate_piece"
    /\ ~call.ret
    /\ Free(game)
    /\ game.piece.shape # Clockwise(game.piece.shape)

\* the spawn origin of a piece
SpawnOrigin(p) == Point((BOARD_WIDTH - ShapeLen(p.shape)) \div 2, 0)

\* C20: place_new_piece returns false and changes nothing when the piece
\* collides at the spawn origin (floor((WIDTH - N) / 2), 0); otherwise it
\* returns true and changes the origin to the spawn origin and nothing else;
\* on the empty board it succeeds, and Game::new leaves the first piece at
\* its spawn origin.
C20_PlaceNewPiece ==
    /\ call.op = "place_new_piece" =>
          LET b == call.before IN
          /\ ~call.panic
          /\ IF Collides(b.board, b.piece, SpawnOrigin(b.piece))
             THEN ~call.ret /\ game = b
             ELSE call.ret /\ game = [b EXCEPT !.piece_position = SpawnOrigin(b.piece)]
          /\ b.board = EmptyCells => call.ret
    /\ call = NoCall =>
          /\ game.board = EmptyCells
          /\ game.piece_position = SpawnOrigin(game.piece)

\* a spawn refused while the origin is that of the piece locked before
C20_Witness ==
    /\ call.op = "place_new_piece"
    /\ ~call.ret
    /\ game.piece_position # SpawnOrigin(game.piece)

\* the events on which the main loop calls advance_game
Advancing(e) ==
    \/ e.kind = "Tick"
    \/ e.kind = "KeyPress" /\ e.key \in {"Down", "Space"}

\* C21: after every step of the main loop the board holds no full row, and
\* the board changes only in a step that dispatches a Tick or a KeyPress of
\* Down or Space, the events that lock a piece and clear the lines.
C21_NoFullRowAfterStep ==
    [][/\ FullRows(game'.board) = {}
       /\ game'.board # game.board =>
             /\ rx_event # << >>
             /\ dispatched' = Head(rx_event).tag
             /\ Advancing(Head(rx_event).event)]_vars

\* a lock has completed a row, which was cleared and counted, while other
\* locked cells stay on the board
C21_Witness ==
    /\ session = "running"
    /\ game.score > 0
    /\ Occupied(game.board) # {}
    /\ FullRows(game.board) = {}

====
